---- MODULE Spec2Model ----
(***************************************************************************)
(* A model of shadowenv's shell hook (src/hook.rs): the previous-state     *)
(* parser, change detection and dispatch, activation, the three output     *)
(* encoders and mutate_own_env.                                            *)
(*                                                                         *)
(* Text is modelled as a sequence of characters, each character a          *)
(* one-element TLA+ string ("0", ":", "'").  Fixed literals of the source  *)
(* that are printed and never inspected ("export ", "set -gx ", the        *)
(* reserved name "__shadowenv_data", the newline of println!, the control  *)
(* bytes 0x01 0x02 0x03 0x1E 0x1F) are each one character of the model.    *)
(***************************************************************************)
EXTENDS Integers, Sequences, FiniteSets, TLC

VARIABLES
    env,          \* the calling shell's environment (what env::vars() sees)
    shellData,    \* the shell's __shadowenv_data: the opaque state string
    shellMode,    \* the VariableOutputMode of the shell's hook
    target,       \* what loader::load finds from the current directory
    emittedFor,   \* <<t>> when shellData was emitted by the hook with target t
                  \* (and t's hash computed without failure)
    last,         \* the record of the most recent invocation of run
    enc,          \* the most recent call of apply_env on a free-standing context
    own           \* the most recent call of mutate_own_env

vars == <<env, shellData, shellMode, target, emittedFor, last, enc, own>>

(***************************************************************************)
(* Bounds of the model.                                                    *)
(***************************************************************************)
\* Sources hash to 0 .. MaxHash.
MaxHash == 2
\* Free-standing values given to the encoders have at most MaxValLen characters.
MaxValLen == 3

(***************************************************************************)
(* Text helpers.                                                           *)
(***************************************************************************)
None == <<>>
Some(x) == <<x>>

RECURSIVE Concat(_)
\* the concatenation of a sequence of texts
Concat(ss) == IF ss = <<>> THEN <<>> ELSE Head(ss) \o Concat(Tail(ss))

RECURSIVE IndexOf(_, _, _)
\* the first position >= i of character c in s, or 0
IndexOf(s, c, i) ==
    IF i > Len(s) THEN 0
    ELSE IF s[i] = c THEN i
    ELSE IndexOf(s, c, i + 1)

Contains(s, c) == IndexOf(s, c, 1) # 0

RECURSIVE Split(_, _)
\* str::split: the pieces of s between occurrences of c (always at least one)
Split(s, c) ==
    LET i == IndexOf(s, c, 1) IN
    IF i = 0 THEN <<s>>
    ELSE <<SubSeq(s, 1, i - 1)>> \o Split(SubSeq(s, i + 1, Len(s)), c)

RECURSIVE Replace(_, _, _)
\* str::replace of the one-character pattern c by the text r
Replace(s, c, r) ==
    IF s = <<>> THEN <<>>
    ELSE (IF Head(s) = c THEN r ELSE <<Head(s)>>) \o Replace(Tail(s), c, r)

RECURSIVE SeqsUpTo(_, _)
\* every sequence over S of length at most n
SeqsUpTo(S, n) ==
    IF n = 0 THEN {<<>>}
    ELSE LET shorter == SeqsUpTo(S, n - 1) IN
         shorter \cup {Append(s, c) : s \in shorter, c \in S}

(***************************************************************************)
(* Hash (crate::hash, outside hook.rs; after the specification): a 64-bit   *)
(* value whose canonical text is HashWidth lower-case hexadecimal digits.  *)
(***************************************************************************)
HashWidth == 16

HexChars == <<"0", "1", "2", "3", "4", "5", "6", "7",
              "8", "9", "a", "b", "c", "d", "e", "f">>

HexVal(c) == (CHOOSE i \in 1..16 : HexChars[i] = c) - 1

IsHex(c) == \E i \in 1..16 : HexChars[i] = c

RECURSIVE HexPad(_, _)
\* format!("{:016x}", h), most significant digit first
HexPad(h, n) ==
    IF n = 0 THEN <<>>
    ELSE Append(HexPad(h \div 16, n - 1), HexChars[(h % 16) + 1])

ZeroHash == HexPad(0, HashWidth)

RECURSIVE StripZeros(_)
StripZeros(s) ==
    IF s # <<>> /\ Head(s) = "0" THEN StripZeros(Tail(s)) ELSE s

RECURSIVE HexNum(_)
HexNum(s) ==
    IF s = <<>> THEN 0
    ELSE 16 * HexNum(SubSeq(s, 1, Len(s) - 1)) + HexVal(s[Len(s)])

\* Hash::from_str: hexadecimal text of a 64-bit value, anything else a ParseError.
Hash_from_str(x) ==
    IF x # <<>> /\ (\A i \in 1..Len(x) : IsHex(x[i]))
                /\ Len(StripZeros(x)) <= HashWidth
    THEN [ok |-> TRUE, hash |-> HexNum(StripZeros(x))]
    ELSE [ok |-> FALSE, hash |-> 0]

(***************************************************************************)
(* Environments and the undo ledger (crate::undo, crate::shadowenv:        *)
(* outside hook.rs, modelled after the specification).  An                 *)
(* environment is a function from variable names to values; the ledger     *)
(* maps a name to its pre-shadow value, None for "was unset".  The         *)
(* ledger's structured text is  { name : value ... }  with one-character   *)
(* names and values and "-" for null; the real text is JSON.               *)
(***************************************************************************)
NameChars == <<"B", "F">>
ValChars == {"b", "c"}

NoEnv == [n \in {} |-> <<>>]

Lookup(e, n) == IF n \in DOMAIN e THEN Some(e[n]) ELSE None

\* e with every name of m set (Some) or removed (None)
Override(e, m) ==
    [n \in ((DOMAIN e \cup DOMAIN m) \ {k \in DOMAIN m : m[k] = None}) |->
        IF n \in DOMAIN m THEN m[n][1] ELSE e[n]]

\* the names on which two environments differ
Differ(a, b) == {n \in DOMAIN a \cup DOMAIN b : Lookup(a, n) # Lookup(b, n)}

IsNameChar(c) == \E i \in 1..Len(NameChars) : NameChars[i] = c

\* undo::Data::from_str: the ledger of a structured text, or a parse error
Data_from_str(json) ==
    LET n == Len(json)
        body == SubSeq(json, 2, n - 1)
        k == Len(body) \div 3
        wellFormed ==
            /\ n >= 2 /\ json[1] = "{" /\ json[n] = "}"
            /\ Len(body) % 3 = 0
            /\ \A i \in 1..k :
                  /\ IsNameChar(body[3 * i - 2])
                  /\ body[3 * i - 1] = ":"
                  /\ body[3 * i] \in ValChars \cup {"-"}
            /\ \A i, j \in 1..k : body[3 * i - 2] = body[3 * j - 2] => i = j
    IN  IF wellFormed
        THEN [ok |-> TRUE,
              data |-> [nm \in {<<body[3 * i - 2]>> : i \in 1..k} |->
                          LET i == CHOOSE i \in 1..k : body[3 * i - 2] = nm[1]
                          IN  IF body[3 * i] = "-" THEN None ELSE Some(<<body[3 * i]>>)]]
        ELSE [ok |-> FALSE, data |-> NoEnv]

RECURSIVE Data_entries(_, _)
Data_entries(data, i) ==
    IF i > Len(NameChars) THEN <<>>
    ELSE (IF <<NameChars[i]>> \in DOMAIN data
          THEN <<NameChars[i], ":">> \o
               (IF data[<<NameChars[i]>>] = None THEN <<"-">> ELSE data[<<NameChars[i]>>][1])
          ELSE <<>>) \o Data_entries(data, i + 1)

\* the ledger's structured text
Data_to_string(data) == <<"{">> \o Data_entries(data, 1) \o <<"}">>

\* Shadowenv::new: the context of one invocation; the ledger is replayed
\* over the environment to give the unshadowed baseline
Shadowenv_new(e, data, target_hash) ==
    [initial_env |-> e,
     unshadowed_env |-> Override(e, data),
     env |-> Override(e, data),
     target_hash |-> target_hash]

NoShadowenv == Shadowenv_new(NoEnv, NoEnv, 0)

\* Shadowenv::exports: what the shell must set (Some) or unset (None)
Shadowenv_exports(sh) ==
    [n \in Differ(sh.initial_env, sh.env) |-> Lookup(sh.env, n)]

\* Shadowenv::format_shadowenv_data: <hash>:<ledger>, the ledger recording the
\* unshadowed value of every variable the context changed
Shadowenv_format_shadowenv_data(sh, fmtOk) ==
    IF fmtOk
    THEN [ok |-> TRUE,
          text |-> HexPad(sh.target_hash, HashWidth) \o <<":">> \o
                   Data_to_string([n \in Differ(sh.unshadowed_env, sh.env) |->
                                      Lookup(sh.unshadowed_env, n)])]
    ELSE [ok |-> FALSE, text |-> <<>>]

(***************************************************************************)
(* Sources and the configuration runtime (crate::loader, crate::lang:      *)
(* outside hook.rs).  A Source is identified by its hash; its program      *)
(* sets F and, for some Sources, unsets B.                                 *)
(***************************************************************************)
Sources == [hash : 0..MaxHash]

Program(t) ==
    [n \in {<<"F">>} \cup (IF t.hash % 3 = 1 THEN {<<"B">>} ELSE {}) |->
        IF n = <<"F">> THEN Some(IF t.hash % 2 = 0 THEN <<"b">> ELSE <<"c">>)
        ELSE None]

\* ShadowLang::run_program: runs the Source's program against the context
ShadowLang_run_program(sh, t, runOk) ==
    IF runOk
    THEN [ok |-> TRUE, shadowenv |-> [sh EXCEPT !.env = Override(sh.env, Program(t))]]
    ELSE [ok |-> FALSE, shadowenv |-> sh]

(***************************************************************************)
(* load_env (hook.rs 35-82).                                               *)
(***************************************************************************)
\* shadowenv_data.splitn(2, ":"): at most two parts, cut at the first colon
splitn2(shadowenv_data) ==
    LET i == IndexOf(shadowenv_data, ":", 1) IN
    IF i = 0 THEN <<shadowenv_data>>
    ELSE <<SubSeq(shadowenv_data, 1, i - 1),
           SubSeq(shadowenv_data, i + 1, Len(shadowenv_data))>>

\* parts.next(): the first part
prev_hash(shadowenv_data) == Some(splitn2(shadowenv_data)[1])

\* parts.next().unwrap_or("{}"): the second part, "{}" when there is none
json_data(shadowenv_data) ==
    LET parts == splitn2(shadowenv_data) IN
    IF Len(parts) >= 2 THEN parts[2] ELSE <<"{", "}">>

\* active without the arm for the all-zero text
active_without_sentinel(shadowenv_data) ==
    LET ph == prev_hash(shadowenv_data) IN
    IF ph = None THEN [ok |-> TRUE, hash |-> None]
    ELSE IF ph[1] = <<>> THEN [ok |-> TRUE, hash |-> None]
    ELSE LET h == Hash_from_str(ph[1]) IN
         IF h.ok THEN [ok |-> TRUE, hash |-> Some(h.hash)]
         ELSE [ok |-> FALSE, hash |-> None]

\* the previous hash: absent for no part, "" and the all-zero text, else parsed
active(shadowenv_data) ==
    LET ph == prev_hash(shadowenv_data) IN
    IF ph = None THEN [ok |-> TRUE, hash |-> None]
    ELSE IF ph[1] = <<>> THEN [ok |-> TRUE, hash |-> None]
    ELSE IF ph[1] = ZeroHash THEN [ok |-> TRUE, hash |-> None]
    ELSE LET h == Hash_from_str(ph[1]) IN
         IF h.ok THEN [ok |-> TRUE, hash |-> Some(h.hash)]
         ELSE [ok |-> FALSE, hash |-> None]

\* dispatch taking a missing target for "no change" whatever the previous hash
dispatch_no_removal(a, tgt, hashOk1) ==
    IF tgt = None THEN "none"
    ELSE IF a # None
    THEN IF ~hashOk1 THEN "err"
         ELSE IF a[1] = tgt[1].hash THEN "none"
         ELSE "go"
    ELSE "go"

\* the match on (&active, &target): "none" returns Ok(None), "err" is the ? of
\* the guard's t.hash(), "go" falls through to the activation.  hashOk1 is
\* whether the guard's call of t.hash() succeeds.
dispatch(a, tgt, hashOk1) ==
    IF a = None /\ tgt = None THEN "none"
    ELSE IF a # None /\ tgt # None
    THEN IF ~hashOk1 THEN "err"
         ELSE IF a[1] = tgt[1].hash THEN "none"
         ELSE "go"
    ELSE "go"

\* target_hash with another reserved value than the one the parser takes for absent
target_hash_reserved_one(tgt, hashOk2) ==
    IF tgt # None
    THEN IF hashOk2 THEN tgt[1].hash ELSE 0
    ELSE 1

\* target_hash: t.hash().unwrap_or(0) for a Source, 0 for none.  hashOk2 is
\* whether this call of t.hash() succeeds.
target_hash(tgt, hashOk2) ==
    IF tgt # None
    THEN IF hashOk2 THEN tgt[1].hash ELSE 0
    ELSE 0

\* undo::Data::from_str(json_data).unwrap_or_default(): a malformed ledger
\* taken for an empty one
parsed_data_or_default(shadowenv_data) ==
    LET d == Data_from_str(json_data(shadowenv_data)) IN
    IF d.ok THEN d ELSE [ok |-> TRUE, data |-> NoEnv]

\* undo::Data::from_str(json_data)?
parsed_data(shadowenv_data) == Data_from_str(json_data(shadowenv_data))

\* the result of load_env and what it did on the way: kind "none" is Ok(None),
\* "some" is Ok(Some((shadowenv, activation))), "err" is Err(err); ran is whether
\* the configuration runtime was executed, hashFailed whether a call of
\* t.hash() failed
Loaded(kind, err, sh, activation, ran, hashFailed) ==
    [kind |-> kind, err |-> err, shadowenv |-> sh, activation |-> activation,
     ran |-> ran, hashFailed |-> hashFailed]

\* load_env.  e is env::vars(); tgt is what loader::load returns when scanOk
\* (env::current_dir and the directory scan succeed); runOk is whether the
\* Source's program runs without error.
load_env(shadowenv_data, e, tgt, scanOk, hashOk1, hashOk2, runOk) ==
    LET a == active(shadowenv_data) IN
    IF ~a.ok THEN Loaded("err", "ParseError(hash)", NoShadowenv, FALSE, FALSE, FALSE)
    ELSE IF ~scanOk THEN Loaded("err", "IoFailure(scan)", NoShadowenv, FALSE, FALSE, FALSE)
    ELSE
    LET d == dispatch(a.hash, tgt, hashOk1)
        failed1 == a.hash # None /\ tgt # None /\ ~hashOk1
    IN
    IF d = "none" THEN Loaded("none", "", NoShadowenv, FALSE, FALSE, FALSE)
    ELSE IF d = "err" THEN Loaded("err", "IoFailure(hash)", NoShadowenv, FALSE, FALSE, TRUE)
    ELSE
    LET th == target_hash(tgt, hashOk2)
        failed == failed1 \/ (tgt # None /\ ~hashOk2)
        data == parsed_data(shadowenv_data)
    IN
    IF ~data.ok THEN Loaded("err", "ParseError(ledger)", NoShadowenv, FALSE, FALSE, failed)
    ELSE
    LET shadowenv == Shadowenv_new(e, data.data, th) IN
    IF tgt # None
    THEN LET r == ShadowLang_run_program(shadowenv, tgt[1], runOk) IN
         IF ~r.ok THEN Loaded("err", "ShadowlispError", NoShadowenv, FALSE, TRUE, failed)
         ELSE Loaded("some", "", r.shadowenv, TRUE, TRUE, failed)
    ELSE Loaded("some", "", shadowenv, FALSE, FALSE, failed)

(***************************************************************************)
(* The output encoders (hook.rs 97-149).                                   *)
(***************************************************************************)
Modes == {"PosixMode", "FishMode", "PorcelainMode"}

\* the characters shell_escape::unix::escape leaves alone
WhitelistChars ==
    {"a", "b", "c", "d", "e", "f", "g", "h", "i", "j", "k", "l", "m",
           "n", "o", "p", "q", "r", "s", "t", "u", "v", "w", "x", "y", "z",
           "A", "B", "C", "D", "E", "F", "G", "H", "I", "J", "K", "L", "M",
           "N", "O", "P", "Q", "R", "S", "T", "U", "V", "W", "X", "Y", "Z",
           "0", "1", "2", "3", "4", "5", "6", "7", "8", "9",
           "-", "_", "=", "/", ",", ".", "+"}

Whitelisted(c) == c \in WhitelistChars

RECURSIVE EscapeChars(_)
EscapeChars(s) ==
    IF s = <<>> THEN <<>>
    ELSE (IF Head(s) \in {"'", "!"} THEN <<"'", "\\", Head(s), "'">> ELSE <<Head(s)>>)
         \o EscapeChars(Tail(s))

\* shell_escape: shell::escape(s), the text itself when it is non-empty and
\* all whitelisted, else the text in single quotes with ' and ! as '\'' and '\!'
shell_escape(s) ==
    IF s # <<>> /\ \A i \in 1..Len(s) : Whitelisted(s[i]) THEN s
    ELSE <<"'">> \o EscapeChars(s) \o <<"'">>

PATH == <<"P", "A", "T", "H">>

\* one println! of the PosixMode loop
PosixLine(k, v) ==
    IF v # None THEN <<"export ">> \o k \o <<"=">> \o shell_escape(v[1]) \o <<"\n">>
    ELSE <<"unset ">> \o k \o <<"\n">>

\* one println! of the FishMode loop
FishLine(k, v) ==
    IF v # None
    THEN IF k = PATH
         THEN <<"set -gx ">> \o k \o <<" ">> \o
              Replace(shell_escape(v[1]), ":", <<"'", " ", "'">>) \o <<"\n">>
         ELSE <<"set -gx ">> \o k \o <<" ">> \o shell_escape(v[1]) \o <<"\n">>
    ELSE <<"set -e ">> \o k \o <<"\n">>

\* one print! of the PorcelainMode loop
PorcelainRecord(k, v) ==
    IF v # None THEN <<"0x02", "0x1F">> \o k \o <<"0x1F">> \o v[1] \o <<"0x1E">>
    ELSE <<"0x03", "0x1F">> \o k \o <<"0x1F", "0x1E">>

\* the text printed for state string data and the exports, visited in order
Encode(mode, data, exports, order) ==
    IF mode = "PosixMode"
    THEN <<"__shadowenv_data=">> \o shell_escape(data) \o <<"\n">> \o
         Concat([i \in 1..Len(order) |-> PosixLine(order[i], exports[order[i]])])
    ELSE IF mode = "FishMode"
    THEN <<"set -g __shadowenv_data ">> \o shell_escape(data) \o <<"\n">> \o
         Concat([i \in 1..Len(order) |-> FishLine(order[i], exports[order[i]])])
    ELSE <<"0x01", "0x1F", "__shadowenv_data", "0x1F">> \o data \o <<"0x1E">> \o
         Concat([i \in 1..Len(order) |-> PorcelainRecord(order[i], exports[order[i]])])

\* the orders in which a map over the names S may be iterated
Orders(S) ==
    {o \in [1..Cardinality(S) -> S] : \A i, j \in 1..Cardinality(S) : o[i] = o[j] => i = j}

\* apply_env printing the exports before the state string is formatted
apply_env_print_first(shadowenv, mode, fmtOk, order) ==
    LET f == Shadowenv_format_shadowenv_data(shadowenv, fmtOk) IN
    [ok |-> f.ok, out |-> Encode(mode, f.text, Shadowenv_exports(shadowenv), order)]

\* apply_env: the state string is formatted first, then everything is printed;
\* order is the iteration order of shadowenv.exports()
apply_env(shadowenv, mode, fmtOk, order) ==
    LET f == Shadowenv_format_shadowenv_data(shadowenv, fmtOk) IN
    IF ~f.ok THEN [ok |-> FALSE, out |-> <<>>]
    ELSE [ok |-> TRUE, out |-> Encode(mode, f.text, Shadowenv_exports(shadowenv), order)]

\* mutate_own_env: the process environment procEnv after the call
mutate_own_env(shadowenv, procEnv, fmtOk) ==
    LET f == Shadowenv_format_shadowenv_data(shadowenv, fmtOk)
        x == Shadowenv_exports(shadowenv)
    IN
    IF ~f.ok THEN [ok |-> FALSE, data |-> <<>>, env |-> procEnv]
    ELSE [ok |-> TRUE, data |-> f.text,
          env |-> [n \in DOMAIN procEnv \cup DOMAIN x |->
                     IF n \in DOMAIN x
                     THEN (IF x[n] # None THEN x[n][1] ELSE <<>>)
                     ELSE procEnv[n]]]

\* run (hook.rs 24-33): whether it returned Ok, its error, what it wrote to
\* standard output, and what load_env returned
run(shadowenv_data, mode, e, tgt, scanOk, hashOk1, hashOk2, runOk, fmtOk, order) ==
    LET l == load_env(shadowenv_data, e, tgt, scanOk, hashOk1, hashOk2, runOk) IN
    IF l.kind = "err" THEN [ok |-> FALSE, err |-> l.err, out |-> <<>>, loaded |-> l]
    ELSE IF l.kind = "none" THEN [ok |-> TRUE, err |-> "", out |-> <<>>, loaded |-> l]
    ELSE LET a == apply_env(l.shadowenv, mode, fmtOk, order) IN
         [ok |-> a.ok, err |-> IF a.ok THEN "" ELSE "SerializeError",
          out |-> a.out, loaded |-> l]

(***************************************************************************)
(* The shell session: the shell calls the hook at every prompt with its    *)
(* __shadowenv_data and evaluates what the hook prints.                    *)
(***************************************************************************)
Hash1 == HexPad(1, HashWidth)

\* previous-state strings a caller may hand in besides the ones the hook emitted
InputStrings ==
    { <<>>,
      ZeroHash,
      ZeroHash \o <<":", "{", "}">>,
      ZeroHash \o <<":", "{", "F">>,
      <<":", "{", "B", ":", "b", "}">>,
      <<"0">>,
      <<"2", ":", "{", "}">>,
      Hash1,
      Hash1 \o <<":">>,
      Hash1 \o <<":", "{", "F", ":", "-", "B", ":", "c", "}">>,
      Hash1 \o <<":", "{", "F", ":">>,
      <<"z">>,
      <<"{", "}">> }

\* the environments the shell may start with
InitialEnvs ==
    { NoEnv,
      [n \in {<<"B">>, <<"F">>} |-> <<"b">>] }

NoCall ==
    [input |-> <<>>, tgt |-> None, fresh |-> FALSE, before |-> NoEnv, ok |-> TRUE,
     err |-> "", kind |-> "init", ran |-> FALSE, activation |-> FALSE,
     hashFailed |-> FALSE, th |-> 0, out |-> <<>>]

NoEnc ==
    [done |-> TRUE, mode |-> "init", shadowenv |-> NoShadowenv, order |-> <<>>,
     ok |-> TRUE, out |-> <<>>]

NoOwn == [done |-> TRUE, shadowenv |-> NoShadowenv, ok |-> TRUE, after |-> NoEnv]

Init ==
    /\ env \in InitialEnvs
    /\ shellData \in InputStrings
    /\ shellMode \in Modes
    /\ target = None
    /\ emittedFor = None
    /\ last = NoCall
    /\ enc = NoEnc
    /\ own = NoOwn

\* the directory changes: loader::load finds another Source, or none
ChangeDir ==
    /\ \E t \in {None} \cup {Some(src) : src \in Sources} :
          /\ t # target
          /\ target' = t
    /\ UNCHANGED <<env, shellData, shellMode, emittedFor, last, enc, own>>

\* one prompt: run(shellData, shellMode), and the shell evaluating what it
\* printed: the exports are applied to the shell's environment and the state
\* string is stored in __shadowenv_data
Hook ==
    \E scanOk, hashOk1, hashOk2, runOk, fmtOk \in BOOLEAN :
      \E l \in {load_env(shellData, env, target, scanOk, hashOk1, hashOk2, runOk)} :
      \E x \in {Shadowenv_exports(l.shadowenv)} :
      \E order \in Orders(DOMAIN x) :
      \E r \in {run(shellData, shellMode, env, target, scanOk, hashOk1, hashOk2,
                    runOk, fmtOk, order)} :
        LET emitted == r.ok /\ l.kind = "some" IN
        /\ last' = [input |-> shellData, tgt |-> target,
                    fresh |-> (emittedFor = Some(target)),
                    before |-> env, ok |-> r.ok, err |-> r.err,
                    kind |-> l.kind, ran |-> l.ran,
                    activation |-> l.activation,
                    hashFailed |-> l.hashFailed,
                    th |-> l.shadowenv.target_hash, out |-> r.out]
        /\ env' = IF emitted THEN Override(env, x) ELSE env
        /\ shellData' = IF emitted
                        THEN Shadowenv_format_shadowenv_data(l.shadowenv, TRUE).text
                        ELSE shellData
        /\ emittedFor' = IF emitted
                         THEN (IF l.hashFailed THEN None ELSE Some(target))
                         ELSE emittedFor
        /\ UNCHANGED <<target, shellMode, enc, own>>

Next ==
    \/ ChangeDir
    \/ Hook

Spec == Init /\ [][Next]_vars

(***************************************************************************)
(* The encoders and mutate_own_env on their own: apply_env and             *)
(* mutate_own_env are public and take any context.  The contexts here are  *)
(* those of a removal whose ledger restores arbitrary values: before is    *)
(* the environment the process started with, after the restored one.       *)
(***************************************************************************)
Context(before, after) ==
    [initial_env |-> before, unshadowed_env |-> after, env |-> after, target_hash |-> 0]

\* the characters of the values given to the encoders
EncChars == {"a", ":", "'", "\\", "0x1E", "0x1F"}

EncValues == SeqsUpTo(EncChars, MaxValLen)

\* an environment holding name n with value v (v = None: not holding it)
Single(n, v) == [k \in (IF v = None THEN {} ELSE {n}) |-> v[1]]

\* the union of two environments over different names
Both(a, b) == [k \in DOMAIN a \cup DOMAIN b |-> IF k \in DOMAIN a THEN a[k] ELSE b[k]]

\* the contexts given to apply_env: one variable set to any value or cleared,
\* and a second variable set, cleared or untouched
EncContexts ==
    {Context(Both(Single(k, IF v = None THEN Some(<<"o">>) ELSE None), Single(<<"B">>, b0)),
             Both(Single(k, v), Single(<<"B">>, b1))) :
        k \in {PATH, <<"A">>},
        v \in {None} \cup {Some(val) : val \in EncValues},
        b0 \in {None, Some(<<"1">>)}, b1 \in {None, Some(<<"1">>)}}

InitEncode ==
    /\ env = NoEnv
    /\ shellData = <<>>
    /\ shellMode = "PosixMode"
    /\ target = None
    /\ emittedFor = None
    /\ last = NoCall
    /\ own = NoOwn
    /\ \E m \in Modes, sh \in EncContexts :
          enc = [done |-> FALSE, mode |-> m, shadowenv |-> sh, order |-> <<>>,
                 ok |-> TRUE, out |-> <<>>]

\* apply_env(enc.shadowenv, enc.mode)
ApplyEnv ==
    /\ ~enc.done
    /\ \E fmtOk \in BOOLEAN :
       \E order \in Orders(DOMAIN Shadowenv_exports(enc.shadowenv)) :
       \E a \in {apply_env(enc.shadowenv, enc.mode, fmtOk, order)} :
          enc' = [enc EXCEPT !.done = TRUE, !.order = order, !.ok = a.ok, !.out = a.out]
    /\ UNCHANGED <<env, shellData, shellMode, target, emittedFor, last, own>>

NextEncode == ApplyEnv

SpecEncode == InitEncode /\ [][NextEncode]_vars

\* the environments over the names A and B with values "" and "v"
OwnEnvs ==
    {Both(Single(<<"A">>, a), Single(<<"B">>, b)) :
        a \in {None, Some(<<>>), Some(<<"v">>)}, b \in {None, Some(<<>>), Some(<<"v">>)}}

InitOwnEnv ==
    /\ env = NoEnv
    /\ shellData = <<>>
    /\ shellMode = "PosixMode"
    /\ target = None
    /\ emittedFor = None
    /\ last = NoCall
    /\ enc = NoEnc
    /\ \E before \in OwnEnvs, after \in OwnEnvs :
          own = [done |-> FALSE, shadowenv |-> Context(before, after),
                 ok |-> TRUE, after |-> before]

\* mutate_own_env(own.shadowenv) in the process whose environment the context
\* was built from
MutateOwnEnv ==
    /\ ~own.done
    /\ \E fmtOk \in BOOLEAN :
       \E m \in {mutate_own_env(own.shadowenv, own.shadowenv.initial_env, fmtOk)} :
          own' = [own EXCEPT !.done = TRUE, !.ok = m.ok, !.after = m.env]
    /\ UNCHANGED <<env, shellData, shellMode, target, emittedFor, last, enc>>

NextOwnEnv == MutateOwnEnv

SpecOwnEnv == InitOwnEnv /\ [][NextOwnEnv]_vars

(***************************************************************************)
(* Properties of the shell session (specification Spec).                   *)
(***************************************************************************)
Called == last.kind # "init"

\* the previous hash of the last invocation's input
LastActive == active(last.input)

\* the last invocation got as far as the match on (previous hash, target)
Dispatched == Called /\ last.err \notin {"ParseError(hash)", "IoFailure(scan)"}

\* both absent, or the previous hash present and equal to the target's hash
NoChangeCase ==
    \/ LastActive.hash = None /\ last.tgt = None
    \/ LastActive.hash # None /\ last.tgt # None /\ LastActive.hash[1] = last.tgt[1].hash

\* the ledger field of the last invocation's input does not parse
MalformedLedger == ~Data_from_str(json_data(last.input)).ok

\* C1: load_env returns the no-change outcome (Ok(None), nothing printed, the
\* runtime not executed) exactly when previous hash and target are both absent
\* or the previous hash is present and equal to the target's hash; in the three
\* other combinations the activation path is taken, and an invocation that
\* does not fail there activates and prints a delta.  With both absent the
\* outcome is empty output even when the ledger field is malformed.
C1_NoChangeExactly ==
    Dispatched =>
        /\ last.kind = "none" => NoChangeCase /\ last.out = <<>> /\ ~last.ran
        /\ NoChangeCase => last.kind = "none" \/ last.err = "IoFailure(hash)"
        /\ ~NoChangeCase /\ last.ok => last.kind = "some" /\ last.out # <<>>
        /\ LastActive.hash = None /\ last.tgt = None =>
              last.kind = "none" /\ last.ok /\ last.out = <<>>

C1_Witness ==
    /\ Dispatched /\ last.kind = "none"
    /\ LastActive.hash = None /\ last.tgt = None /\ MalformedLedger

\* C2: once an invocation has activated a target Source and emitted a state
\* string, every later invocation given that state string with the same
\* target prints nothing and does not execute the runtime, whatever the
\* Source's hash is.  (Invocations in which a hash computation fails are left
\* out: they are the case of C4.)
C2_Idempotent ==
    Called /\ last.fresh /\ last.tgt # None /\ ~last.hashFailed =>
        last.out = <<>> /\ ~last.ran

\* C3: an invocation of run that fails has written nothing to standard output.
C3_NothingOnFailure ==
    Called /\ ~last.ok => last.out = <<>>

C3_Witness ==
    Called /\ ~last.ok /\ last.kind = "some" /\ last.err = "SerializeError"

\* C4: when a target Source exists and computing its hash fails, the
\* invocation fails: run returns an error and the shell is given no new state
\* string.
C4_HashFailureFails ==
    Called /\ last.tgt # None /\ last.hashFailed => ~last.ok /\ shellData = last.input

\* C5 as stated: a malformed ledger makes load_env fail whatever the previous
\* hash and the target are.
C5_MalformedAlwaysFails ==
    Called /\ MalformedLedger => last.kind = "err"

\* C5 as amended: a malformed ledger makes load_env fail whenever the
\* activation path is taken, and is never treated as an empty ledger; only in
\* the no-change cases is the ledger not parsed and Ok(None) returned.
C5_MalformedFailsOnActivation ==
    Called /\ MalformedLedger =>
        /\ last.kind # "some"
        /\ last.kind = "none" => Dispatched /\ NoChangeCase
        /\ Dispatched /\ ~NoChangeCase => last.kind = "err"

C5_Witness ==
    Called /\ MalformedLedger /\ last.err = "ParseError(ledger)"

\* the hash field and the ledger field load_env takes from the last input
LastField == prev_hash(last.input)[1]
LastJson == json_data(last.input)

\* C6 as stated: "", the all-zero text, every string whose hash field is empty
\* or all-zero, and every string without a colon give an absent previous hash
\* and no error.
C6_NoColonIsAbsent ==
    Called /\ last.ok /\ (LastField \in {<<>>, ZeroHash} \/ ~Contains(last.input, ":")) =>
        LastActive.ok /\ LastActive.hash = None /\ last.err # "ParseError(hash)"

\* C6 as amended: the hash field is the text before the first colon, the
\* whole string when it has no colon; it gives an absent previous hash without
\* error exactly when it is empty or the all-zero text (so a string without a
\* colon does only when it is "" or the all-zero text), and otherwise parses as
\* a Hash or fails the invocation with a ParseError.  The ledger is "{}" when the
\* string has no colon, and the text after the first colon (even when empty)
\* when it has one.
C6_HashField ==
    Called =>
        /\ prev_hash(last.input) # None
        /\ IF Contains(last.input, ":")
           THEN /\ last.input = LastField \o <<":">> \o LastJson
                /\ ~Contains(LastField, ":")
           ELSE /\ LastField = last.input
                /\ LastJson = <<"{", "}">>
        /\ IF LastField \in {<<>>, ZeroHash}
           THEN LastActive.ok /\ LastActive.hash = None /\ last.err # "ParseError(hash)"
           ELSE IF Hash_from_str(LastField).ok
           THEN /\ LastActive.ok /\ LastActive.hash = Some(Hash_from_str(LastField).hash)
                /\ last.err # "ParseError(hash)"
           ELSE ~LastActive.ok /\ last.kind = "err" /\ last.err = "ParseError(hash)"

\* a string without a colon is taken whole as a present hash, its ledger "{}"
C6_Witness ==
    /\ Called /\ ~Contains(last.input, ":") /\ LastActive.hash # None
    /\ last.kind = "some" /\ last.ok

\* the ledger the last invocation parsed
LastLedger == Data_from_str(LastJson).data

\* C7: with a previous hash present and no target Source, load_env returns an
\* activation result without executing the runtime, with activated = false
\* and the reserved hash 0, the delta restores every variable of the ledger,
\* and the emitted state string makes the next invocation with still no
\* target print nothing.
C7_Removal ==
    /\ Dispatched /\ LastActive.hash # None /\ last.tgt = None /\ ~MalformedLedger =>
          /\ last.kind = "some" /\ ~last.ran /\ ~last.activation /\ last.th = 0
          /\ last.ok =>
                /\ last.out # <<>>
                /\ \A n \in DOMAIN LastLedger : Lookup(env, n) = LastLedger[n]
                /\ emittedFor = Some(None)
                /\ SubSeq(shellData, 1, HashWidth + 1) = ZeroHash \o <<":">>
    /\ Called /\ last.fresh /\ last.tgt = None =>
          /\ last.out = <<>> /\ ~last.ran
          /\ last.kind = "none" \/ last.err = "IoFailure(scan)"

\* the invocation that follows a removal, given the state string it emitted
C7_Witness ==
    /\ Called /\ last.fresh /\ last.tgt = None /\ last.kind = "none"
    /\ last.input = ZeroHash \o <<":", "{", "}">>

(***************************************************************************)
(* Properties of the encoders (specification SpecEncode).  The readers     *)
(* below are the consumers of the output: a porcelain parser that splits   *)
(* on 0x1E and then on 0x1F, and fish's tokenizer for quoted words.        *)
(***************************************************************************)
EncExports == Shadowenv_exports(enc.shadowenv)

EncData == Shadowenv_format_shadowenv_data(enc.shadowenv, TRUE).text

\* the records of a porcelain output: its pieces between 0x1E, a trailing
\* empty piece (the trailing record separator) dropped, each split on 0x1F
PorcelainRecords(out) ==
    LET pieces == Split(out, "0x1E")
        kept == IF pieces[Len(pieces)] = <<>>
                THEN SubSeq(pieces, 1, Len(pieces) - 1) ELSE pieces
    IN  [i \in 1..Len(kept) |-> Split(kept[i], "0x1F")]

\* C8: porcelain output is one opcode-1 record named __shadowenv_data carrying
\* the state string, followed by one record per entry of the export map
\* (opcode 2 with the value, opcode 3 with an empty value), each record being
\* opcode, name and value; splitting on 0x1E and then on 0x1F recovers the
\* state string and the export map, with or without the trailing 0x1E.
C8_PorcelainFraming ==
    enc.done /\ enc.ok /\ enc.mode = "PorcelainMode" =>
        \A out \in {enc.out, SubSeq(enc.out, 1, Len(enc.out) - 1)} :
            LET recs == PorcelainRecords(out) IN
            /\ Len(recs) = 1 + Cardinality(DOMAIN EncExports)
            /\ \A i \in 1..Len(recs) : Len(recs[i]) = 3
            /\ recs[1] = <<<<"0x01">>, <<"__shadowenv_data">>, EncData>>
            /\ \A i \in 2..Len(recs) :
                  /\ recs[i][2] = enc.order[i - 1]
                  /\ IF EncExports[enc.order[i - 1]] # None
                     THEN /\ recs[i][1] = <<"0x02">>
                          /\ recs[i][3] = EncExports[enc.order[i - 1]][1]
                     ELSE /\ recs[i][1] = <<"0x03">>
                          /\ recs[i][3] = <<>>

RECURSIVE FishWords(_, _, _, _, _)
\* the words fish reads from text s at position i: outside quotes a space ends
\* a word, ' opens a quoted part and \ makes the next character literal (\a is
\* the alert character); inside single quotes only \' and \\ are escapes and '
\* closes.  quoted: inside quotes; cur: the word so far; open: a word has begun.
FishWords(s, i, quoted, cur, open) ==
    IF i > Len(s)
    THEN IF quoted THEN [ok |-> FALSE, words |-> <<>>]
         ELSE [ok |-> TRUE, words |-> IF open THEN <<cur>> ELSE <<>>]
    ELSE IF quoted
    THEN IF s[i] = "'" THEN FishWords(s, i + 1, FALSE, cur, TRUE)
         ELSE IF s[i] = "\\" /\ i < Len(s) /\ s[i + 1] \in {"'", "\\"}
         THEN FishWords(s, i + 2, TRUE, Append(cur, s[i + 1]), TRUE)
         ELSE FishWords(s, i + 1, TRUE, Append(cur, s[i]), TRUE)
    ELSE IF s[i] = " "
    THEN LET rest == FishWords(s, i + 1, FALSE, <<>>, FALSE) IN
         [ok |-> rest.ok,
          words |-> IF rest.ok THEN (IF open THEN <<cur>> ELSE <<>>) \o rest.words ELSE <<>>]
    ELSE IF s[i] = "'" THEN FishWords(s, i + 1, TRUE, cur, TRUE)
    ELSE IF s[i] = "\\"
    THEN IF i = Len(s) THEN [ok |-> FALSE, words |-> <<>>]
         ELSE FishWords(s, i + 2, FALSE,
                        Append(cur, IF s[i + 1] = "a" THEN "0x07" ELSE s[i + 1]), TRUE)
    ELSE FishWords(s, i + 1, FALSE, Append(cur, s[i]), TRUE)

\* the lines of a println! output
Lines(out) ==
    LET pieces == Split(out, "\n") IN SubSeq(pieces, 1, Len(pieces) - 1)

\* C9: in fish mode a set variable named PATH is emitted as set -gx PATH
\* followed by one quoted list element per colon-delimited segment of the
\* value, in order, each evaluating to exactly that segment; any other set
\* variable is emitted as one shell-escaped scalar and a cleared variable as
\* set -e NAME.
C9_FishPathList ==
    enc.done /\ enc.ok /\ enc.mode = "FishMode" =>
        /\ Len(Lines(enc.out)) = 1 + Len(enc.order)
        /\ \A i \in 1..Len(enc.order) :
              LET k == enc.order[i]
                  v == EncExports[k]
                  line == Lines(enc.out)[i + 1]
                  head == <<"set -gx ">> \o k \o <<" ">>
                  args == FishWords(SubSeq(line, Len(head) + 1, Len(line)), 1,
                                    FALSE, <<>>, FALSE)
              IN
              IF v = None THEN line = <<"set -e ">> \o k
              ELSE IF k = PATH
              THEN /\ SubSeq(line, 1, Len(head)) = head
                   /\ args.ok
                   /\ args.words = Split(v[1], ":")
              ELSE line = head \o shell_escape(v[1])

(***************************************************************************)
(* Properties of mutate_own_env (specification SpecOwnEnv).                *)
(***************************************************************************)
OwnExports == Shadowenv_exports(own.shadowenv)

\* C10: after mutate_own_env returns Ok every variable exported as Some(value)
\* has that value in the process environment, every variable exported as None
\* is absent from it and every other variable is unchanged; when serializing
\* the state string fails the process environment is unchanged.
C10_OwnEnvMatchesDelta ==
    own.done =>
        IF own.ok
        THEN \A n \in DOMAIN own.after \cup DOMAIN own.shadowenv.initial_env \cup DOMAIN OwnExports :
                IF n \in DOMAIN OwnExports
                THEN Lookup(own.after, n) = OwnExports[n]
                ELSE Lookup(own.after, n) = Lookup(own.shadowenv.initial_env, n)
        ELSE own.after = own.shadowenv.initial_env

====
